---- MODULE Spec2Model ----
(***************************************************************************)
(* Triple-barrier labelling (FinML): the symmetric CUSUM event filter      *)
(* (filters.py) and the Labeller (labelling.py, the importable copy under  *)
(* build/lib).                                                             *)
(*                                                                         *)
(* Encoding of reals.  Timestamps are whole days 1, 2, 3, ...; NaT is the  *)
(* missing timestamp.  Signal values and thresholds of the CUSUM filter    *)
(* are integers in units of 1/2.  Prices are integers in units of 1/2 that *)
(* divide PriceLcm, so every simple return p/q - 1 is the exact integer    *)
(* Ret(q, p) in units of 1/PriceLcm.  A target (a standard deviation) is   *)
(* kept as its square: the record [n, d] stands for sqrt(n/d)/PriceLcm, or *)
(* NaN; a comparison  ret < -m * trgt  is then decided exactly by signs    *)
(* and squares.                                                            *)
(***************************************************************************)
EXTENDS Integers, Sequences, FiniteSets

VARIABLES
    \* getTEvents
    gRaw, h, floating, cpc, k, sPos, sNeg, tEvents, uPos, uNeg,
    \* Labeller
    close, evArg, seeds, numDays, trgt, minRet, pt_sl, side, useT1,
    pc, t1, touches, events, labels

cvars == <<gRaw, h, floating, cpc, k, sPos, sNeg, tEvents, uPos, uNeg>>
lvars == <<close, evArg, seeds, numDays, trgt, minRet, pt_sl, side, useT1,
           pc, t1, touches, events, labels>>
vars == <<cvars, lvars>>

\* ---------------------------------------------------------------- bounds
MaxSigLen == 4
MaxDay == 3
MaxLen == 4

NaT == 0
Days == 1..MaxDay

Max(a, b) == IF a >= b THEN a ELSE b
Min(a, b) == IF a <= b THEN a ELSE b
SetMin(S) == CHOOSE x \in S : \A y \in S : x <= y
Range(s) == {s[j] : j \in 1..Len(s)}
StrictlyIncreasing(s) == \A a, b \in 1..Len(s) : a < b => s[a] < s[b]

\* ================================================================ filters.py
SigVals == {2, 4, 6}
HVals == {-1, 1, 3, 5}

\* time-ordered index that may repeat a timestamp
SigIndexes ==
    UNION {{ix \in [1..n -> 1..MaxSigLen] :
              \A j \in 1..n : IF j = 1 THEN ix[j] = 1
                              ELSE ix[j] - ix[j-1] \in {0, 1}} : n \in 0..MaxSigLen}

MkSeries(ix, vs) == [j \in 1..Len(ix) |-> [t |-> ix[j], v |-> vs[j]]]

\* Scenario A: [1, 1, 1, 3, 3, 1, 1] at daily steps, h = 1.5
ScenarioA == MkSeries(<<1, 2, 3, 4, 5, 6, 7>>, <<2, 2, 2, 6, 6, 2, 2>>)

\* gRaw[~gRaw.index.duplicated(keep='first')]
Dedup(s) ==
    LET RECURSIVE go(_, _)
        go(j, acc) ==
            IF j > Len(s) THEN acc
            ELSE IF \E a \in 1..Len(acc) : acc[a].t = s[j].t
                 THEN go(j + 1, acc)
                 ELSE go(j + 1, Append(acc, s[j]))
    IN go(1, <<>>)

g == Dedup(gRaw)

\* diff.loc[i] for the i at position j of diff.index
Diff(j) == g[j].v - g[j-1].v

CusumIdle ==
    /\ gRaw = <<>> /\ h = 0 /\ floating = FALSE /\ cpc = "idle"
    /\ k = 0 /\ sPos = 0 /\ sNeg = 0 /\ tEvents = <<>> /\ uPos = 0 /\ uNeg = 0

CusumInit ==
    /\ \/ /\ \E ix \in SigIndexes : \E vs \in [1..Len(ix) -> SigVals] :
                gRaw = MkSeries(ix, vs)
          /\ h \in HVals
          /\ floating \in BOOLEAN
       \/ gRaw = ScenarioA /\ h = 3 /\ floating = FALSE
    /\ cpc = "loop"
    /\ k = 2                      \* diff.index[1:]
    /\ sPos = 0 /\ sNeg = 0 /\ tEvents = <<>>
    /\ uPos = 0 /\ uNeg = 0

\* the positive test placed first
BranchPosFirst(sp, sn, hh) ==
    IF sp > hh THEN "pos" ELSE IF sn < -hh THEN "neg" ELSE "none"

\* the branch taken at  if sNeg < -h: ... elif sPos > h: ...
Branch(sp, sn, hh) ==
    IF sn < -hh THEN "neg" ELSE IF sp > hh THEN "pos" ELSE "none"

\* the running sum without its floor at 0
AccPosNoFloor(sp, d) == sp + d

\* sPos, sNeg = max(0, sPos + diff.loc[i]), min(0, sNeg + diff.loc[i])
AccPos(sp, d) == Max(0, sp + d)
AccNeg(sn, d) == Min(0, sn + d)

\* one iteration of the loop over diff.index[1:]
CusumStep ==
    /\ cpc = "loop" /\ k <= Len(g)
    /\ LET sp == AccPos(sPos, Diff(k))
           sn == AccNeg(sNeg, Diff(k))
       IN /\ uPos' = sp /\ uNeg' = sn
          /\ \E hh \in (IF floating THEN HVals ELSE {h}) :
                /\ h' = hh
                /\ LET b == Branch(sp, sn, hh)
                   IN /\ sNeg' = IF b = "neg" THEN 0 ELSE sn
                      /\ sPos' = IF b = "pos" THEN 0 ELSE sp
                      /\ tEvents' = IF b = "none" THEN tEvents
                                    ELSE Append(tEvents, g[k].t)
    /\ k' = k + 1
    /\ UNCHANGED <<gRaw, floating, cpc, lvars>>

CusumReturn ==
    /\ cpc = "loop" /\ k > Len(g)
    /\ cpc' = "done"
    /\ UNCHANGED <<gRaw, h, floating, k, sPos, sNeg, tEvents, uPos, uNeg, lvars>>

LabIdle ==
    /\ close = <<>> /\ evArg = <<>> /\ seeds = <<>> /\ numDays = 0 /\ trgt = <<>> /\ minRet = 0
    /\ pt_sl = <<0, 0>> /\ side = <<>> /\ useT1 = FALSE
    /\ pc = "idle" /\ t1 = <<>> /\ touches = <<>> /\ events = <<>> /\ labels = <<>>

InitCusum == CusumInit /\ LabIdle
NextCusum == CusumStep \/ CusumReturn
SpecCusum == InitCusum /\ [][NextCusum]_vars

\* ---------------------------------------------------------------- C6, C10
\* the emissions of the filter of section 4.2 run with a constant threshold
RECURSIVE RefEmit(_, _, _, _)
RefEmit(j, sp, sn, hh) ==
    IF j > Len(g) THEN {}
    ELSE LET p == Max(0, sp + g[j].v - g[j-1].v)
             n == Min(0, sn + g[j].v - g[j-1].v)
         IN IF n < -hh THEN {g[j].t} \cup RefEmit(j + 1, p, 0, hh)
            ELSE IF p > hh THEN {g[j].t} \cup RefEmit(j + 1, 0, n, hh)
            ELSE RefEmit(j + 1, p, n, hh)

Processed == cpc \in {"loop", "done"} /\ k > 2
LastEmitted == tEvents # <<>> /\ tEvents[Len(tEvents)] = g[k-1].t
DoubleBreach == Processed /\ uNeg < -h /\ uPos > h

\* C6: an index is emitted exactly when, after the update, s_neg < -h or
\* otherwise s_pos > h; the negative branch resets only s_neg, the positive
\* branch only s_pos; the output is strictly increasing (hence free of
\* duplicates), lies in the de-duplicated index from its second element on,
\* equals the emissions of the constant-threshold filter when no adaptive
\* function is given, and is <<2020-01-04, 2020-01-06>> in Scenario A.
C6_Emission ==
    /\ Processed =>
         /\ LastEmitted <=> (uNeg < -h \/ uPos > h)
         /\ uNeg < -h => sNeg = 0 /\ sPos = uPos
         /\ (~(uNeg < -h) /\ uPos > h) => sPos = 0 /\ sNeg = uNeg
         /\ (~(uNeg < -h) /\ ~(uPos > h)) => sPos = uPos /\ sNeg = uNeg
    /\ cpc # "idle" =>
         /\ StrictlyIncreasing(tEvents)
         /\ Range(tEvents) \subseteq {g[j].t : j \in 2..Len(g)}
         /\ Range(tEvents) \subseteq {gRaw[j].t : j \in 1..Len(gRaw)}
    /\ (cpc = "done" /\ ~floating) => Range(tEvents) = RefEmit(2, 0, 0, h)
    /\ (cpc = "done" /\ gRaw = ScenarioA /\ h = 3 /\ ~floating)
         => tEvents = <<4, 6>>

C6_Witness ==
    cpc = "done" /\ gRaw = ScenarioA /\ h = 3 /\ ~floating
    /\ tEvents = <<4, 6>>

\* C10: with a constant threshold h >= 0 the accumulators stay within
\* [0, h] and [-h, 0] after every processed index, and the two breaches never
\* hold together at the test.
C10_Bounded ==
    (cpc \in {"loop", "done"} /\ ~floating /\ h >= 0) =>
        /\ 0 <= sPos /\ sPos <= h
        /\ -h <= sNeg /\ sNeg <= 0
        /\ ~DoubleBreach

\* a double breach under a non-negative threshold, reached with an adaptive one
C10_Witness == floating /\ h >= 0 /\ DoubleBreach /\ sNeg = 0 /\ sPos = uPos

\* ================================================================ labelling.py
PriceVals == {2, 3, 4, 6}
PriceLcm ==
    CHOOSE n \in 1..24 : /\ \A p \in PriceVals : n % p = 0
                         /\ \A m \in 1..(n - 1) : \E p \in PriceVals : m % p # 0
TBPriceVals == {2, 3, 6}

\* simple return p/q - 1 in units of 1/PriceLcm
Ret(q, p) == ((p - q) * PriceLcm) \div q

NaN == [n |-> -1, d |-> 1]
IsNaN(x) == x.n < 0
Sgn(x) == IF x > 0 THEN 1 ELSE IF x < 0 THEN -1 ELSE 0

Idx(c) == [j \in 1..Len(c) |-> c[j].t]
IdxSet(c) == {c[j].t : j \in 1..Len(c)}
PosOf(c, ts) == CHOOSE j \in 1..Len(c) : c[j].t = ts

\* trgt >= minRet
GeMinRet(x, mr) == ~IsNaN(x) /\ (mr < 0 \/ x.n >= mr * mr * x.d)

\* trgt > minRet, minRet in units of 1/PriceLcm; NaN compares False
GtMinRet(x, mr) == ~IsNaN(x) /\ (mr < 0 \/ x.n > mr * mr * x.d)

\* r <= -m * trgt
BelowOrEqual(r, m, x) == r <= 0 /\ r * r * x.d >= m * m * x.n

\* r < -m * trgt and r > m * trgt, r in units of 1/PriceLcm
Below(r, m, x) == r < 0 /\ r * r * x.d > m * m * x.n
Above(r, m, x) == r > 0 /\ r * r * x.d > m * m * x.n

\* ---------------------------------------------------------------- get_vol
Span0 == 20
RECURSIVE Pow(_, _)
Pow(b, e) == IF e = 0 THEN 1 ELSE b * Pow(b, e - 1)

\* the return at position a + 1 of the series, a = 1 .. Len(c) - 1
RetAt(c, a) == Ret(c[a].p, c[a+1].p)

\* weight of the pair of returns a < b among m, up to a common factor:
\* (1 - alpha)^(m-a) * (1 - alpha)^(m-b) with alpha = 2 / (span0 + 1)
PairWeight(m, a, b) == Pow(Span0 - 1, 2*m - a - b - 1) * Pow(Span0 + 1, a + b - 3)

Pairs(m) == {q \in (1..m) \X (1..m) : q[1] < q[2]}

\* sum over the pairs S of weight * (x_a - x_b)^2, or of the weights alone
RECURSIVE PairSum(_, _, _, _)
PairSum(c, m, S, squares) ==
    IF S = {} THEN 0
    ELSE LET q == CHOOSE y \in S : TRUE
             dx == IF squares THEN RetAt(c, q[1]) - RetAt(c, q[2]) ELSE 1
         IN PairWeight(m, q[1], q[2]) * dx * dx + PairSum(c, m, S \ {q}, squares)

\* df0.ewm(span=span0).std() at position j: the exponentially weighted
\* standard deviation, adjusted weights, debiased, of the returns up to j,
\* sum w_a w_b (x_a - x_b)^2 / (2 sum w_a w_b) over the pairs a < b;
\* missing with fewer than two returns
EwmStd(c, j) ==
    IF j < 3 THEN NaN
    ELSE [n |-> PairSum(c, j - 1, Pairs(j - 1), TRUE),
          d |-> 2 * PairSum(c, j - 1, Pairs(j - 1), FALSE)]

GetVol(c) == [ts \in IdxSet(c) |-> EwmStd(c, PosOf(c, ts))]

\* ---------------------------------------------------------------- add_vertical_barrier
\* searchsorted(x, side='right'): the position of the first index > x
SearchSortedRight(ix, x) == Cardinality({j \in 1..Len(ix) : ix[j] <= x})

\* close.index.searchsorted(x): the position (from 0) of the first index >= x
SearchSorted(ix, x) == Cardinality({j \in 1..Len(ix) : ix[j] < x})

SelectLt(s, n) ==
    LET RECURSIVE go(_, _)
        go(j, acc) == IF j > Len(s) THEN acc
                      ELSE go(j + 1, IF s[j] < n THEN Append(acc, s[j]) ELSE acc)
    IN go(1, <<>>)

\* the returned Series as a sequence of [s: index label, b: value]
AddVerticalBarrier(c, ev, n) ==
    LET pos == [j \in 1..Len(ev) |-> SearchSorted(Idx(c), ev[j] + n)]
        kept == SelectLt(pos, Len(c))
    IN [j \in 1..Len(kept) |-> [s |-> ev[j], b |-> c[kept[j] + 1].t]]

\* the value of Series v at label s, NaT when s is not in its index
At(v, s) ==
    IF \E j \in 1..Len(v) : v[j].s = s
    THEN v[CHOOSE j \in 1..Len(v) : v[j].s = s].b
    ELSE NaT
Values(v) == {v[j].b : j \in 1..Len(v)}

\* ---------------------------------------------------------------- apply_tripple_barrier
\* close[loc: end], the positions of the label slice, both ends included
Path(c, loc, end) == {j \in 1..Len(c) : c[j].t >= loc /\ c[j].t <= end}

\* df0[cond].index.min(), NaT when empty
FirstWhere(c, S) == IF S = {} THEN NaT ELSE SetMin({c[j].t : j \in S})

\* one row of out: [t1, sl, pt] for the event at loc
TouchRow(c, loc, vert, tg, sd, ptsl) ==
    LET end == IF vert = NaT THEN c[Len(c)].t ELSE vert
        path == Path(c, loc, end)
        r(j) == Ret(c[PosOf(c, loc)].p, c[j].p) * sd
    IN [t1 |-> vert,
        sl |-> IF ptsl[2] > 0
               THEN FirstWhere(c, {j \in path : Below(r(j), ptsl[2], tg)})
               ELSE NaT,
        pt |-> IF ptsl[1] > 0
               THEN FirstWhere(c, {j \in path : Above(r(j), ptsl[1], tg)})
               ELSE NaT]

\* ---------------------------------------------------------------- get_events_tripple_barrier
\* trgt.loc[trgt.index.intersection(tEvents)]; trgt[trgt > minRet]
EventIndex(ev, tr, mr) ==
    {s \in Range(ev) \cap DOMAIN tr : GtMinRet(tr[s], mr)}

\* [pt_sl[0], pt_sl[0]] whether or not a side is given
EffPtSlSymmetric(sd, ptsl) == <<ptsl[1], ptsl[1]>>

\* side is None: [pt_sl[0], pt_sl[0]]; else pt_sl[:2]
EffPtSl(sd, ptsl) == IF sd.has THEN ptsl ELSE <<ptsl[1], ptsl[1]>>

SideAt(sd, s) == IF sd.has THEN sd.at[s] ELSE 1

Touches(c, ev, ptsl, tr, mr, vb, sd) ==
    [s \in EventIndex(ev, tr, mr) |->
        TouchRow(c, s, At(vb, s), tr[s], SideAt(sd, s), EffPtSl(sd, ptsl))]

\* x.min(skipna=False) over a row of out
RowMinKeepNa(row) ==
    IF NaT \in {row.t1, row.sl, row.pt} THEN NaT
    ELSE SetMin({row.t1, row.sl, row.pt})

\* x.dropna().min() over a row of out
RowMin(row) ==
    LET S == {row.t1, row.sl, row.pt} \ {NaT} IN IF S = {} THEN NaT ELSE SetMin(S)

ResolvedEvents(tch, tr) ==
    [s \in DOMAIN tch |-> [t1 |-> RowMin(tch[s]), trgt |-> tr[s]]]

\* ---------------------------------------------------------------- get_bins
\* close.reindex(px, method='bfill') at ts: the price at the first index >= ts
PxAt(c, ts) == c[SearchSorted(Idx(c), ts) + 1].p

\* events_['t1'].isin(t1.values)
IsVertical(vb, s, e) == e \in Values(vb)

\* np.sign(ret) alone
BinSignOnly(ret, hasSide, vertical) == Sgn(ret)

\* out['bin'] = np.sign(out['ret']); with a side, bin = 0 where ret <= 0;
\* without, bin = 0 at the rows of vertical_first_touch_idx
Bin(ret, hasSide, vertical) ==
    IF hasSide THEN (IF ret <= 0 THEN 0 ELSE Sgn(ret))
    ELSE IF vertical THEN 0 ELSE Sgn(ret)

\* px.loc[t1].values / px.loc[index] - 1, times side when there is one
LabelRet(c, s, e, sd) == Ret(PxAt(c, s), PxAt(c, e)) * SideAt(sd, s)

GetBinsOut(c, evs, sd, vb) ==
    [s \in {x \in DOMAIN evs : evs[x].t1 # NaT} |->
        LET ret == LabelRet(c, s, evs[s].t1, sd)
        IN [ret |-> ret,
            bin |-> Bin(ret, sd.has, IsVertical(vb, s, evs[s].t1))]]

\* ---------------------------------------------------------------- steps
\* t1 = add_vertical_barrier(close, tEvents, numDays)
AddVerticalBarrierStep ==
    /\ pc = "start"
    /\ t1' = AddVerticalBarrier(close, seeds, numDays)
    /\ pc' = "vb"
    /\ UNCHANGED <<close, evArg, seeds, numDays, trgt, minRet, pt_sl, side, useT1,
                   touches, events, labels, cvars>>

\* the vertical barriers get_events_tripple_barrier works with:
\* the Series passed as t1, or pd.Series(pd.NaT, index=tEvents) for t1=False
PassedT1 == IF useT1 THEN t1 ELSE <<>>

\* events = get_events_tripple_barrier(close, tEvents, pt_sl, trgt, minRet, t1=, side=)
\* close.index[-1] of an empty series raises IndexError
GetEventsStep ==
    /\ pc = "vb"
    /\ IF Len(close) = 0
       THEN /\ pc' = "error"
            /\ UNCHANGED <<touches, events>>
       ELSE /\ touches' = Touches(close, seeds, pt_sl, trgt, minRet, PassedT1, side)
            /\ events' = ResolvedEvents(touches', trgt)
            /\ pc' = "events"
    /\ UNCHANGED <<close, evArg, seeds, numDays, trgt, minRet, pt_sl, side, useT1,
                   t1, labels, cvars>>

\* labels = get_bins(close, events, t1=); without a side column the default
\* t1=False has no .values and raises AttributeError
GetBinsStep ==
    /\ pc = "events"
    /\ IF ~side.has /\ ~useT1
       THEN /\ pc' = "error"
            /\ UNCHANGED labels
       ELSE /\ labels' = GetBinsOut(close, events, side, t1)
            /\ pc' = "done"
    /\ UNCHANGED <<close, evArg, seeds, numDays, trgt, minRet, pt_sl, side, useT1,
                   t1, touches, events, cvars>>

NextLab == AddVerticalBarrierStep \/ GetEventsStep \/ GetBinsStep

\* ---------------------------------------------------------------- inputs
RECURSIVE SortedSeq(_)
SortedSeq(S) == IF S = {} THEN <<>>
                ELSE <<SetMin(S)>> \o SortedSeq(S \ {SetMin(S)})

\* price series over the timestamps T, strictly increasing index
SeriesOver(T, PV) ==
    {[j \in 1..Cardinality(T) |-> [t |-> SortedSeq(T)[j], p |-> ps[j]]] :
        ps \in [1..Cardinality(T) -> PV]}

\* the events argument: None, or a time-ordered index of seeds
None == [given |-> FALSE, ev |-> <<>>]
Given(ev) == [given |-> TRUE, ev |-> ev]

\* if events is None: events = self.series.index
LBEvents(c, arg) == IF arg.given THEN arg.ev ELSE Idx(c)

NoSide == [has |-> FALSE, at |-> <<>>]
UniformSide(c, v) == [has |-> TRUE, at |-> [ts \in IdxSet(c) |-> v]]

\* targets 0 and 1/2
TBTrgtVals == {[n |-> 0, d |-> 1], [n |-> 36, d |-> 1]}
\* a target series missing at its first lead positions
UniformTrgt(c, x, lead) ==
    [ts \in IdxSet(c) |-> IF PosOf(c, ts) <= lead THEN NaN ELSE x]
PtVals == {0, 1, 2}
SlVals == {0, 1}
NumDaysVals == {1, 2}

LabStart ==
    /\ pc = "start" /\ t1 = <<>> /\ touches = <<>> /\ events = <<>> /\ labels = <<>>

\* the Labeller's static methods called in sequence on free inputs
InitTB ==
    /\ CusumIdle
    /\ \E T \in (SUBSET Days) \ {{}} : close \in SeriesOver(T, TBPriceVals)
    /\ \E S \in SUBSET IdxSet(close) : evArg = Given(SortedSeq(S))
    /\ seeds = evArg.ev
    /\ useT1 \in BOOLEAN
    /\ numDays \in (IF useT1 THEN NumDaysVals ELSE {1})
    /\ \E x \in TBTrgtVals : \E lead \in (IF x.n = 0 THEN {0} ELSE {0, 1}) :
          trgt = UniformTrgt(close, x, lead)
    /\ minRet = 0
    /\ pt_sl \in PtVals \X SlVals
    /\ side \in {NoSide, UniformSide(close, 1), UniformSide(close, -1)}
    /\ LabStart

SpecTB == InitTB /\ [][NextLab]_vars

\* label_binarizer: numDays=7, pt_sl=[1, 1], trgt=get_vol(series), minRet=0, t1=t1
LBNumDays == 7
PipeDays == Days \cup {LBNumDays + 1}

\* Scenario B: [1, 2, 3, 1.5] on 2020-01-01 .. 2020-01-04
ScenarioB == <<[t |-> 1, p |-> 2], [t |-> 2, p |-> 4],
               [t |-> 3, p |-> 6], [t |-> 4, p |-> 3]>>

InitPipe ==
    /\ CusumIdle
    /\ \/ \E T \in SUBSET PipeDays :
             /\ Cardinality(T) <= MaxLen
             /\ close \in SeriesOver(T, PriceVals)
       \/ close = ScenarioB
    /\ \/ evArg = None
       \/ \E S \in SUBSET IdxSet(close) : evArg = Given(SortedSeq(S))
    /\ seeds = LBEvents(close, evArg)
    /\ numDays = LBNumDays
    /\ useT1 = TRUE
    /\ trgt = GetVol(close)
    /\ minRet = 0
    /\ pt_sl = <<1, 1>>
    /\ side = NoSide
    /\ LabStart

SpecPipe == InitPipe /\ [][NextLab]_vars

\* ---------------------------------------------------------------- reference
\* The quantities the properties below speak of, stated on the inputs alone.
RefPrice(ts) == close[CHOOSE j \in 1..Len(close) : close[j].t = ts].p
RefLast == close[Len(close)].t

\* first price timestamp at or after s + n days, NaT when there is none
RefVertical(s, n) ==
    LET S == {ts \in IdxSet(close) : ts >= s + n}
    IN IF S = {} THEN NaT ELSE SetMin(S)

\* the vertical barrier the scan of s works with
RefEndVertical(s) == IF useT1 THEN RefVertical(s, numDays) ELSE NaT

RefPath(s) ==
    {ts \in IdxSet(close) :
        ts >= s /\ ts <= (IF RefEndVertical(s) = NaT THEN RefLast ELSE RefEndVertical(s))}

\* side-scaled return of the path at ts relative to the price at s
RefScaled(s, ts) ==
    (((RefPrice(ts) - RefPrice(s)) * PriceLcm) \div RefPrice(s))
        * (IF side.has THEN side.at[s] ELSE 1)

\* scaled return strictly below -m * target, strictly above m * target
RefBelow(s, ts, m) ==
    RefScaled(s, ts) < 0
    /\ RefScaled(s, ts) * RefScaled(s, ts) * trgt[s].d > m * m * trgt[s].n
RefAbove(s, ts, m) ==
    RefScaled(s, ts) > 0
    /\ RefScaled(s, ts) * RefScaled(s, ts) * trgt[s].d > m * m * trgt[s].n

Earliest(S) == IF S = {} THEN NaT ELSE SetMin(S)
RefSlTouch(s, m, on) ==
    IF on THEN Earliest({ts \in RefPath(s) : RefBelow(s, ts, m)}) ELSE NaT
RefPtTouch(s, m, on) ==
    IF on THEN Earliest({ts \in RefPath(s) : RefAbove(s, ts, m)}) ELSE NaT

\* minimum of the non-missing values, NaT when all are missing
MinNonMissing(S) == Earliest(S \ {NaT})

RefTargetOk(s) == s \in DOMAIN trgt /\ trgt[s].n > 0

Scanned == pc \in {"events", "done"} \/ (pc = "error" /\ events # <<>>)

C2_AsStated ==
    Scanned => \A s \in DOMAIN events :
        events[s].t1 = MinNonMissing({RefEndVertical(s),
                                      RefSlTouch(s, pt_sl[2], TRUE),
                                      RefPtTouch(s, pt_sl[1], TRUE)})

\* the multipliers the scan uses
RefMult == IF side.has THEN pt_sl ELSE <<pt_sl[1], pt_sl[1]>>

\* C2 amended: as C2, with the multipliers (pt_mult, sl_mult) when a side is
\* supplied and (pt_mult, pt_mult) when not, a barrier of multiplier 0 being
\* disabled; the Resolved Event Set holds exactly the seeds with a target
\* above minRet.
C2_FirstTouch ==
    Scanned =>
        /\ DOMAIN events = {s \in Range(seeds) : RefTargetOk(s)}
        /\ \A s \in DOMAIN events :
            /\ touches[s].sl = RefSlTouch(s, RefMult[2], RefMult[2] > 0)
            /\ touches[s].pt = RefPtTouch(s, RefMult[1], RefMult[1] > 0)
            /\ events[s].t1 = MinNonMissing({RefEndVertical(s),
                                  RefSlTouch(s, RefMult[2], RefMult[2] > 0),
                                  RefPtTouch(s, RefMult[1], RefMult[1] > 0)})

\* without a side and with sl_mult = 0 < pt_mult: a stop-loss touch, at
\* -pt_mult * target, that comes before the vertical barrier
C2_Witness ==
    /\ pc = "events" /\ ~side.has /\ pt_sl[1] > 0 /\ pt_sl[2] = 0
    /\ \E s \in DOMAIN events :
          /\ touches[s].t1 # NaT /\ touches[s].sl # NaT /\ touches[s].pt = NaT
          /\ touches[s].sl < touches[s].t1
          /\ events[s].t1 = touches[s].sl

\* ---------------------------------------------------------------- C3
OnlyProfit == pt_sl[1] > 0 /\ pt_sl[2] = 0
NeverAbove(s) == \A ts \in RefPath(s) : ~RefAbove(s, ts, pt_sl[1])

\* C3 as stated: only the profit barrier enabled and a path never above it
\* give t1 = end_vertical (missing without one), with or without a side.
C3_AsStated ==
    (Scanned /\ OnlyProfit) => \A s \in DOMAIN events :
        NeverAbove(s) => events[s].t1 = RefEndVertical(s)

\* C3 amended: the same when a side series is supplied.
C3_BarrierRace ==
    (Scanned /\ OnlyProfit /\ side.has) => \A s \in DOMAIN events :
        NeverAbove(s) => events[s].t1 = RefEndVertical(s)

\* a sided event whose path falls below -pt_mult * target and never rises
\* above the profit level, resolved at its vertical barrier
C3_Witness ==
    /\ pc = "events" /\ OnlyProfit /\ side.has
    /\ \E s \in DOMAIN events :
          /\ NeverAbove(s)
          /\ \E ts \in RefPath(s) : RefBelow(s, ts, pt_sl[1])
          /\ RefEndVertical(s) # NaT
          /\ events[s].t1 = RefEndVertical(s)

\* ---------------------------------------------------------------- C4, C5
RefRet(s) ==
    ((RefPrice(events[s].t1) - RefPrice(s)) * PriceLcm) \div RefPrice(s)

\* C4: without a side column, bin = 0 when t1 is the event's own vertical
\* barrier and bin = sign(ret) otherwise.
C4_AsStated ==
    (pc = "done" /\ ~side.has) => \A s \in DOMAIN labels :
        labels[s].bin = IF events[s].t1 = RefVertical(s, numDays) THEN 0
                        ELSE Sgn(RefRet(s))

\* C5: with a side, ret is the path return from start to t1 times side and
\* bin is 1 exactly when ret > 0 and 0 otherwise; without one bin is in
\* {-1, 0, 1}; the records are those of the events with a first touch.
C5_BinBound ==
    pc = "done" =>
        /\ DOMAIN labels = {s \in DOMAIN events : events[s].t1 # NaT}
        /\ \A s \in DOMAIN labels :
            IF side.has
            THEN /\ labels[s].ret = RefRet(s) * side.at[s]
                 /\ labels[s].bin = (IF labels[s].ret > 0 THEN 1 ELSE 0)
                 /\ labels[s].bin \in {0, 1}
            ELSE /\ labels[s].ret = RefRet(s)
                 /\ labels[s].bin \in {-1, 0, 1}

\* a short side with one winning and one losing bet
C5_Witness ==
    /\ pc = "done" /\ side.has
    /\ \E a, b \in DOMAIN labels :
          /\ side.at[a] = -1 /\ RefRet(a) < 0 /\ labels[a].bin = 1
          /\ RefRet(b) > 0 /\ side.at[b] = -1 /\ labels[b].bin = 0

\* ---------------------------------------------------------------- C1, C8, C9
AllSeeds == ~evArg.given

\* at least two returns up to s, not all equal
RefVolDefined(s) ==
    LET j == CHOOSE i \in 1..Len(close) : close[i].t = s
    IN /\ j >= 3
       /\ \E a, b \in 2..j :
             close[a].p * close[b-1].p # close[b].p * close[a-1].p

RefPipeT1(s) ==
    MinNonMissing({RefVertical(s, LBNumDays), RefSlTouch(s, 1, TRUE),
                   RefPtTouch(s, 1, TRUE)})

\* C1: with no events every timestamp is a seed, the barriers are 7 days,
\* pt_sl = [1, 1] and minRet = 0, and the records are exactly the seeds with a
\* defined positive target and a first touch; Scenario B yields the single
\* record 2020-01-03 with ret = -0.5 and bin = -1.
C1_Pipeline ==
    (pc = "done" /\ AllSeeds) =>
        /\ seeds = Idx(close)
        /\ numDays = 7 /\ pt_sl = <<1, 1>> /\ minRet = 0
        /\ DOMAIN labels = {s \in IdxSet(close) :
                               RefVolDefined(s) /\ RefPipeT1(s) # NaT}
        /\ close = ScenarioB =>
              /\ DOMAIN labels = {3}
              /\ 2 * labels[3].ret = -PriceLcm
              /\ labels[3].bin = -1

C1_Witness ==
    /\ pc = "done" /\ AllSeeds /\ close = ScenarioB
    /\ DOMAIN labels = {3} /\ labels[3].bin = -1

Truncated(s) == RefVertical(s, numDays) = NaT

\* C8 as stated: an event whose vertical barrier projects past the end of the
\* series yields no Label Record.
C8_AsStated ==
    pc = "done" => \A s \in Range(seeds) : Truncated(s) => s \notin DOMAIN labels

\* C8 amended: such an event raises no error and is scanned without a
\* vertical barrier, to the last timestamp; it yields a Label Record exactly
\* when its target is defined and positive and a horizontal barrier is touched.
C8_Truncation ==
    /\ Len(close) > 0 => pc # "error"
    /\ pc = "done" => \A s \in Range(seeds) : Truncated(s) =>
          /\ s \in DOMAIN labels <=>
                /\ RefVolDefined(s)
                /\ MinNonMissing({RefSlTouch(s, 1, TRUE), RefPtTouch(s, 1, TRUE)}) # NaT

\* every seed truncated, one labelled and one not
C8_Witness ==
    /\ pc = "done"
    /\ \A s \in Range(seeds) : Truncated(s)
    /\ \E s \in Range(seeds) : s \in DOMAIN labels
    /\ \E s \in Range(seeds) : s \in DOMAIN events /\ s \notin DOMAIN labels

\* C9: with an empty price series the pipeline is in the error state before
\* add_vertical_barrier has returned: it never stands past that call.
C9_AsStated ==
    (pc # "idle" /\ Len(close) = 0) => pc \in {"start", "error"}

====
